---- MODULE Spec2Model ----
(***************************************************************************)
(* A model of the system crate (system/src/lib.rs: Addr, MsgQueue,         *)
(* system_init over std::sync::mpsc) and of the entity system              *)
(* (src/entity.rs: EntitySystem).                                          *)
(*                                                                         *)
(* ChanSpec drives one channel pair made by system_init from several Addr  *)
(* clones and the single MsgQueue.  OwnerSpec drives one EntitySystem      *)
(* while its owner holds it (subscribe, publish, system_addr,              *)
(* send_msg_self, up to startup).  Spec drives one EntitySystem from new   *)
(* to the end of start, with its own channel and the channel of the parent *)
(* runtime.  FairSpec is Spec with the system's thread scheduled fairly.   *)
(* ResSpec drives one ResourceManager (system/src/resource.rs, modelled    *)
(* from the specification's section 4.3) through wrap and removal.         *)
(***************************************************************************)
EXTENDS Integers, Sequences, FiniteSets, TLC

\* ------------------------------------------------------------------ bounds
\* Addr clones ever made for the channel of ChanSpec (the original included).
MaxAddrs == 2
\* Messages successfully sent over the channel of ChanSpec.
MaxMsgs == 3
\* Addr clones of the entity system's channel ever handed out or cloned.
MaxExt == 2
\* Kill messages successfully sent to the entity system.
MaxKills == 2
\* Directory entries the startup traversal meets.
MaxEntries == 2
\* Directories open at once during the traversal (the root included).
MaxDepth == 2
\* Subscribers registered with the entity system.
MaxSubs == 2
\* publish calls made on the entity system.
MaxPubs == 2
\* wrap calls made on the resource manager of ResSpec.
MaxWraps == 3

\* SystemUID(u16): the largest value.
U16Max == 65535
\* The SystemUID values the model constructs systems with.
UIDs == {0, U16Max}

\* ------------------------------------------------- the channel (lib.rs)
\* A channel is [queue, senders, rx]: the buffered messages, the number of live
\* mpsc::Sender handles (Addr clones), and whether the mpsc::Receiver (MsgQueue)
\* still exists.

system_init == [queue |-> <<>>, senders |-> 1, rx |-> TRUE]

\* Mutant of enqueue: the message is put in front of the pending ones.
enqueue_front(q, m) == <<m>> \o q

\* mpsc::Sender::send on a connected channel: the message goes to the back.
enqueue(q, m) == Append(q, m)

\* Mutant of send_ok: a send succeeds whatever the state of the receive side.
send_ok_always(ch) == TRUE

\* Sender::send succeeds iff the Receiver has not been dropped.
send_ok(ch) == ch.rx

\* Mutant of send_ready: the channel holds one message at most, as
\* mpsc::sync_channel(1) would, and a send waits for room.
send_ready_bounded(ch) == Len(ch.queue) < 1

\* system_init makes the channel with mpsc::channel(): its buffer is unbounded
\* and Sender::send never waits.
send_ready(ch) == TRUE

\* Addr::send_msg: the result, Ok or Err(CannotSend) (map_err of SendError).
send_msg_res(ch) == IF send_ok(ch) THEN "Ok" ELSE "CannotSend"

\* Addr::send_msg: the channel afterwards.
send_msg(ch, m) ==
  IF send_ok(ch) THEN [ch EXCEPT !.queue = enqueue(@, m)] ELSE ch

\* Mutant of recv_closed: an empty queue alone reads as a closed channel.
recv_closed_on_empty(ch) == ch.queue = <<>>

\* Receiver::recv gives Err(RecvError) iff nothing is buffered and every
\* Sender is gone.
recv_closed(ch) == ch.queue = <<>> /\ ch.senders = 0

\* Mutant of recv_ready: recv waits for a message even on a closed channel.
recv_ready_msg_only(ch) == ch.queue # <<>>

\* MsgQueue::recv returns (rather than blocks) iff a message is buffered or
\* the channel is closed.
recv_ready(ch) == ch.queue # <<>> \/ recv_closed(ch)

\* Mutant of recv_pick: the newest message is taken instead of the oldest.
recv_pick_last(q) == Len(q)

\* Receiver::recv takes the oldest buffered message.
recv_pick(q) == 1

\* MsgQueue::recv: Some(msg) as <<msg>>, None as <<>> (Result::ok).
recv_res(ch) ==
  IF recv_closed(ch) THEN <<>> ELSE <<ch.queue[recv_pick(ch.queue)]>>

\* Mutant of recv: the message is copied out and stays buffered.
recv_copy(ch) == ch

\* MsgQueue::recv: the channel afterwards.
recv(ch) ==
  IF recv_closed(ch) THEN ch
  ELSE [ch EXCEPT !.queue =
          [i \in 1..(Len(@) - 1) |->
             IF i < recv_pick(ch.queue) THEN @[i] ELSE @[i + 1]]]

\* Addr::clone: one more Sender on the same channel.
addr_clone(ch) == [ch EXCEPT !.senders = @ + 1]

\* Dropping an Addr: one Sender fewer.
addr_drop(ch) == [ch EXCEPT !.senders = @ - 1]

\* Dropping the MsgQueue: the Receiver is gone and what was buffered with it.
queue_drop(ch) == [ch EXCEPT !.rx = FALSE, !.queue = <<>>]

\* ------------------------------------------------------------- the state
VARIABLES
  \* ChanSpec: one channel pair and the threads that use it
  chan,        \* the channel made by system_init
  live,        \* the ids of the Addr clones that exist
  made,        \* how many Addr values were ever made (ids 1..made)
  sendLog,     \* the messages whose send_msg returned Ok, in the order sent
  received,    \* the messages recv returned, in the order returned
  sendRes,     \* what the last send_msg returned: "none", "Ok", "CannotSend"
  recvRes,     \* what the last recv returned: "none", "Some", "None"
  recvStart,   \* Len(sendLog) when recv first returned, -1 before
  recvAtClose, \* Len(received) when the last Addr clone was dropped, -1 before
  \* Spec: one EntitySystem, its channel and the parent runtime's channel
  pc,          \* where the system is: "created", "traversing", "running",
               \* "terminating", "stopped", "panicked"
  uid,         \* EntitySystem.uid
  eCh,         \* the channel of EntitySystem.addr / EntitySystem.msg_queue
  extAddrs,    \* the live Addr clones of eCh held outside the system
  handed,      \* how many such clones were ever made
  kills,       \* how many Kill messages were successfully sent
  eSendRes,    \* what the last send_msg on eCh returned
  lastRecv,    \* what the run loop's recv returned: <<>> before and for None,
               \* <<msg>> for Some(msg)
  recvd,       \* whether the run loop's recv has returned
  rtCh,        \* the channel behind EntitySystem.runtime_addr
  exitLog,     \* the RuntimeMsg values successfully sent to the runtime
  entries,     \* the directory entries met by the traversal, in order
  depth,       \* the directories open in the traversal
  resources,   \* the names EntitySystem.resources.wrap was called with
  manager,     \* EntitySystem.resources, the ResourceManager
  handles,     \* the handles wrap returned, in the order returned
  subscribers, \* EntitySystem.subscribers
  delivered,   \* the recv_msg calls made on subscribers: <<subscriber, event>>
  published,   \* per publish call, the subscriber list it was made on
  registered   \* the subscribers passed to subscribe, in the order of the calls

chanVars ==
  <<chan, live, made, sendLog, received, sendRes, recvRes, recvStart,
    recvAtClose>>

addrVars == <<eCh, extAddrs, handed, kills, eSendRes>>

runVars == <<pc, lastRecv, recvd, rtCh, exitLog>>

dirVars == <<entries, depth, resources, manager, handles>>

subVars == <<subscribers, delivered, published, registered>>

sysVars == <<uid, addrVars, runVars, dirVars, subVars>>

vars == <<chanVars, sysVars>>

\* ------------------------------------- the resource manager (spec 4.3)
\* A ResourceManager is [next, store]: the next handle to mint and the stored
\* (value, name) pairs by handle.

\* ResourceManager::new()
manager_new == [next |-> 0, store |-> <<>>]

\* Mutant of wrap_handle: the handle is the number of values stored.
wrap_handle_by_size(rm) == Cardinality(DOMAIN rm.store)

\* The handle wrap mints: handles are minted monotonically.
wrap_handle(rm) == rm.next

\* wrap(value, name): the value is stored under a freshly minted handle.
wrap(rm, value, name) ==
  [next |-> rm.next + 1,
   store |-> (wrap_handle(rm) :> [value |-> value, name |-> name]) @@ rm.store]

\* Removal of the value stored under handle h.
remove(rm, h) ==
  [rm EXCEPT !.store = [k \in (DOMAIN rm.store) \ {h} |-> rm.store[k]]]

\* ------------------------------------------------ the entity system
\* RuntimeMsg::SystemExit(self.uid)
SystemExit(u) == [type |-> "SystemExit", uid |-> u]

\* EntitySystem::new(runtime_addr, uid, root_dir)
SysStart(u) ==
  /\ uid = u
  /\ pc = "created"
  /\ eCh = system_init
  /\ extAddrs = 0
  /\ handed = 0
  /\ kills = 0
  /\ eSendRes = "none"
  /\ lastRecv = <<>>
  /\ recvd = FALSE
  /\ rtCh = system_init
  /\ exitLog = <<>>
  /\ entries = <<>>
  /\ depth = 0
  /\ resources = <<>>
  /\ manager = manager_new
  /\ handles = <<>>
  /\ subscribers = <<>>
  /\ delivered = <<>>
  /\ published = <<>>
  /\ registered = <<>>

\* ---------------------------------------------------------------- ChanSpec
\* The messages of ChanSpec are <<a, k>>: the k-th message sent through Addr a.
SentBy(log, a) == SelectSeq(log, LAMBDA m : m[1] = a)

NextMsg(a) == <<a, Len(SentBy(sendLog, a)) + 1>>

\* let (addr, msg_queue) = system_init();
ChanStart ==
  /\ chan = system_init
  /\ live = {1}
  /\ made = 1
  /\ sendLog = <<>>
  /\ received = <<>>
  /\ sendRes = "none"
  /\ recvRes = "none"
  /\ recvStart = -1
  /\ recvAtClose = -1

\* addr.send_msg(msg) on the Addr clone a.
SendMsg(a) ==
  /\ a \in live
  /\ chan.rx => Len(sendLog) < MaxMsgs
  /\ send_ready(chan)
  /\ chan' = send_msg(chan, NextMsg(a))
  /\ sendRes' = send_msg_res(chan)
  /\ sendLog' = IF send_msg_res(chan) = "Ok"
                  THEN Append(sendLog, NextMsg(a)) ELSE sendLog
  /\ UNCHANGED <<live, made, received, recvRes, recvStart, recvAtClose, sysVars>>

\* msg_queue.recv(), from the call to its return; it blocks (is not enabled)
\* while nothing is buffered and a Sender is alive.
Recv ==
  /\ chan.rx
  /\ recv_ready(chan)
  /\ chan' = recv(chan)
  /\ received' = received \o recv_res(chan)
  /\ recvRes' = IF recv_res(chan) = <<>> THEN "None" ELSE "Some"
  /\ recvStart' = IF recvStart = -1 THEN Len(sendLog) ELSE recvStart
  /\ UNCHANGED <<live, made, sendLog, sendRes, recvAtClose, sysVars>>

\* addr.clone() on the Addr clone a.
CloneAddr(a) ==
  /\ a \in live
  /\ made < MaxAddrs
  /\ chan' = addr_clone(chan)
  /\ live' = live \cup {made + 1}
  /\ made' = made + 1
  /\ UNCHANGED <<sendLog, received, sendRes, recvRes, recvStart, recvAtClose, sysVars>>

\* drop(addr) of the Addr clone a.
DropAddr(a) ==
  /\ a \in live
  /\ chan' = addr_drop(chan)
  /\ live' = live \ {a}
  /\ recvAtClose' = IF live = {a} THEN Len(received) ELSE recvAtClose
  /\ UNCHANGED <<made, sendLog, received, sendRes, recvRes, recvStart, sysVars>>

\* drop(msg_queue).
DropQueue ==
  /\ chan.rx
  /\ chan' = queue_drop(chan)
  /\ UNCHANGED <<live, made, sendLog, received, sendRes, recvRes, recvStart,
               recvAtClose, sysVars>>

ChanNext ==
  \/ \E a \in 1..MaxAddrs : SendMsg(a)
  \/ Recv
  \/ \E a \in 1..MaxAddrs : CloneAddr(a)
  \/ \E a \in 1..MaxAddrs : DropAddr(a)
  \/ DropQueue

ChanInit == ChanStart /\ SysStart(0)

ChanSpec == ChanInit /\ [][ChanNext]_vars

\* ----------------------------------------------------------------- ResSpec
\* The values and names ResSpec wraps.
ResValues == {"m1", "m2"}

ResNames == {"a.obj", "b.obj"}

\* let h = resources.wrap(value, name);
Wrap(value, name) ==
  /\ Len(handles) < MaxWraps
  /\ manager' = wrap(manager, value, name)
  /\ handles' = Append(handles, wrap_handle(manager))
  /\ UNCHANGED <<chanVars, uid, addrVars, runVars, entries, depth, resources,
                 subVars>>

\* Removal of a stored value by its handle.
Remove(h) ==
  /\ h \in DOMAIN manager.store
  /\ manager' = remove(manager, h)
  /\ UNCHANGED <<chanVars, uid, addrVars, runVars, entries, depth, resources,
                 handles, subVars>>

ResNext ==
  \/ \E value \in ResValues, name \in ResNames : Wrap(value, name)
  \/ \E h \in 0..MaxWraps : Remove(h)

ResSpec == ChanInit /\ [][ResNext]_vars

\* -------------------------------------------------------------------- Spec
\* The directory entries read_dir can yield: a regular file with its extension
\* ("none": no extension) and whether Mesh::load_from_path succeeds on it, a
\* directory, or something that is neither (path.is_dir() and path.is_file()
\* both false).
FileEntries == [kind : {"file"}, ext : {"obj", "txt", "none"}, loads : BOOLEAN]

DirEntry == [kind |-> "dir", ext |-> "none", loads |-> FALSE]

OtherEntry == [kind |-> "other", ext |-> "none", loads |-> FALSE]

Entries == FileEntries \cup {DirEntry, OtherEntry}

\* path.extension().and_then(OsStr::to_str): Some(ext) as <<ext>>, None as <<>>.
extension(e) == IF e.ext = "none" THEN <<>> ELSE <<e.ext>>

\* Mutant of load_obj: the file is wrapped whether or not it loaded.
load_obj_unchecked(res, e, name) == Append(res, name)

\* EntitySystem::load_obj: Ok(mesh) is handed to self.resources.wrap under the
\* path's name; Err is logged.
load_obj(res, e, name) == IF e.loads THEN Append(res, name) ELSE res

\* EntitySystem::extension_based_dispatch: "obj" goes to load_obj, anything
\* else is logged.
extension_based_dispatch(res, ext, e, name) ==
  IF ext = "obj" THEN load_obj(res, e, name) ELSE res

\* The file arm of EntitySystem::traverse_directory: dispatch on the extension,
\* or log that there is none.
visit_file(res, e, name) ==
  IF extension(e) = <<>> THEN res
  ELSE extension_based_dispatch(res, extension(e)[1], e, name)

\* The loop of EntitySystem::publish from the i-th subscriber on:
\* sub.recv_msg(event.clone()) for each, in the Vec's order.
RECURSIVE publish_from(_, _, _, _)
publish_from(subs, i, log, e) ==
  IF i > Len(subs) THEN log
  ELSE publish_from(subs, i + 1, Append(log, <<subs[i], e>>), e)

\* Mutant of publish: the subscribers are served last to first.
publish_reversed(subs, log, e) ==
  log \o [k \in 1..Len(subs) |-> <<subs[Len(subs) + 1 - k], e>>]

\* EntitySystem::publish
publish(subs, log, e) == publish_from(subs, 1, log, e)

\* Mutant of subscribe: the new subscriber is put first.
subscribe_front(subs, sub) == <<sub>> \o subs

\* EntitySystem::subscribe: self.subscribers.push(Box::new(subscriber))
subscribe(subs, sub) == Append(subs, sub)

\* Mutant of system_dropped: only the Addr field goes, the MsgQueue stays.
system_dropped_addr_only(ch) == addr_drop(ch)

\* The system value is dropped (start returned, or its thread unwound): its
\* MsgQueue and its own Addr go with it.
system_dropped(ch) == queue_drop(addr_drop(ch))

\* Mutant of notify_outcome: the result of send_msg is ignored.
notify_outcome_ignored(res) == "stopped"

\* .unwrap() on the result of runtime_addr.send_msg, then break: start returns
\* on Ok and panics on Err.
notify_outcome(res) == IF res = "Ok" THEN "stopped" ELSE "panicked"

\* Mutant of exit_msg: the notification carries a fixed uid.
exit_msg_fixed(u) == SystemExit(0)

\* The message start sends to the runtime.
exit_msg(u) == SystemExit(u)

SubIds == 1..MaxSubs

Init == ChanStart /\ \E u \in UIDs : SysStart(u)

\* self.system_addr(), by the owner of a system not yet started.
SystemAddr ==
  /\ pc = "created"
  /\ handed < MaxExt
  /\ eCh' = addr_clone(eCh)
  /\ extAddrs' = extAddrs + 1
  /\ handed' = handed + 1
  /\ UNCHANGED <<chanVars, uid, kills, eSendRes, runVars, dirVars, subVars>>

\* addr.clone() by a holder of an Addr of the system.
ExtClone ==
  /\ extAddrs > 0
  /\ handed < MaxExt
  /\ eCh' = addr_clone(eCh)
  /\ extAddrs' = extAddrs + 1
  /\ handed' = handed + 1
  /\ UNCHANGED <<chanVars, uid, kills, eSendRes, runVars, dirVars, subVars>>

\* drop(addr) by a holder of an Addr of the system.
ExtDrop ==
  /\ extAddrs > 0
  /\ eCh' = addr_drop(eCh)
  /\ extAddrs' = extAddrs - 1
  /\ UNCHANGED <<chanVars, uid, handed, kills, eSendRes, runVars, dirVars,
                 subVars>>

\* addr.send_msg(EntityMsg::Kill) by a holder of an Addr of the system.
ExtSend ==
  /\ extAddrs > 0
  /\ eCh.rx => kills < MaxKills
  /\ send_ready(eCh)
  /\ eCh' = send_msg(eCh, "Kill")
  /\ eSendRes' = send_msg_res(eCh)
  /\ kills' = IF send_msg_res(eCh) = "Ok" THEN kills + 1 ELSE kills
  /\ UNCHANGED <<chanVars, uid, extAddrs, handed, runVars, dirVars, subVars>>

\* Mutant of SendMsgSelf: the message goes to the runtime's address.
SendMsgSelfToRuntime ==
  /\ pc = "created"
  /\ kills < MaxKills
  /\ send_ready(rtCh)
  /\ rtCh' = send_msg(rtCh, "Kill")
  /\ eSendRes' = send_msg_res(rtCh)
  /\ kills' = IF send_msg_res(rtCh) = "Ok" THEN kills + 1 ELSE kills
  /\ UNCHANGED <<chanVars, uid, eCh, extAddrs, handed, pc, lastRecv, recvd,
                 exitLog, dirVars, subVars>>

\* self.send_msg_self(EntityMsg::Kill): self.system_addr().send_msg(msg), the
\* temporary clone dropped on return.
SendMsgSelf ==
  /\ pc = "created"
  /\ kills < MaxKills
  /\ send_ready(eCh)
  /\ eCh' = addr_drop(send_msg(addr_clone(eCh), "Kill"))
  /\ eSendRes' = send_msg_res(addr_clone(eCh))
  /\ kills' = IF send_msg_res(addr_clone(eCh)) = "Ok" THEN kills + 1 ELSE kills
  /\ UNCHANGED <<chanVars, uid, extAddrs, handed, runVars, dirVars, subVars>>

\* self.subscribe(subscriber), with a subscriber not registered before (the
\* call takes ownership of it).
Subscribe(sub) ==
  /\ pc = "created"
  /\ \A i \in 1..Len(subscribers) : subscribers[i] # sub
  /\ subscribers' = subscribe(subscribers, sub)
  /\ registered' = Append(registered, sub)
  /\ UNCHANGED <<chanVars, uid, addrVars, runVars, dirVars, delivered,
                 published>>

\* self.publish(EntityEvent::HelloWorld), from the call to its return.
Publish ==
  /\ pc = "created"
  /\ Len(published) < MaxPubs
  /\ delivered' = publish(subscribers, delivered, "HelloWorld")
  /\ published' = Append(published, subscribers)
  /\ UNCHANGED <<chanVars, uid, addrVars, runVars, dirVars, subscribers,
                 registered>>

\* Mutant of Startup: the thread starts on an emptied inbox.
StartupEmptiesQueue ==
  /\ pc = "created"
  /\ pc' = "traversing"
  /\ eCh' = [eCh EXCEPT !.queue = <<>>]
  /\ UNCHANGED <<chanVars, uid, extAddrs, handed, kills, eSendRes, lastRecv,
                 recvd, rtCh, exitLog, dirVars, subVars>>

\* self.startup(): the system moves into a new thread, which runs start.
Startup ==
  /\ pc = "created"
  /\ pc' = "traversing"
  /\ UNCHANGED <<chanVars, uid, addrVars, lastRecv, recvd, rtCh, exitLog,
                 dirVars, subVars>>

\* The runtime drops its MsgQueue.
RuntimeDrop ==
  /\ rtCh.rx
  /\ rtCh' = queue_drop(rtCh)
  /\ UNCHANGED <<chanVars, uid, addrVars, pc, lastRecv, recvd, exitLog,
                 dirVars, subVars>>

\* read_dir(root_dir).unwrap() succeeds: the traversal of the root begins.
OpenRoot ==
  /\ pc = "traversing"
  /\ depth = 0
  /\ depth' = 1
  /\ UNCHANGED <<chanVars, uid, addrVars, runVars, entries, resources,
                 manager, handles, subVars>>

\* One iteration of the for loop of traverse_directory on the entry e, named
\* by its position among the entries met.
TraverseEntry(e) ==
  /\ pc = "traversing"
  /\ depth >= 1
  /\ Len(entries) < MaxEntries
  /\ e.kind = "dir" => depth < MaxDepth
  /\ entries' = Append(entries, e)
  /\ depth' = IF e.kind = "dir" THEN depth + 1 ELSE depth
  /\ resources' = IF e.kind = "file"
                    THEN visit_file(resources, e, Len(entries) + 1)
                    ELSE resources
  /\ manager' = IF resources' # resources
                  THEN wrap(manager, Len(entries) + 1, Len(entries) + 1)
                  ELSE manager
  /\ handles' = IF resources' # resources
                  THEN Append(handles, wrap_handle(manager))
                  ELSE handles
  /\ UNCHANGED <<chanVars, uid, addrVars, runVars, subVars>>

\* The for loop of traverse_directory ends: back in the parent directory, or,
\* from the root, on to the main loop of start.
LeaveDir ==
  /\ pc = "traversing"
  /\ depth >= 1
  /\ depth' = depth - 1
  /\ pc' = IF depth = 1 THEN "running" ELSE "traversing"
  /\ UNCHANGED <<chanVars, uid, addrVars, lastRecv, recvd, rtCh, exitLog,
                 entries, resources, manager, handles, subVars>>

\* read_dir(path).unwrap() or dir_entry.unwrap() meets an I/O error: the
\* thread panics and the system is dropped.
TraversePanic ==
  /\ pc = "traversing"
  /\ pc' = "panicked"
  /\ eCh' = system_dropped(eCh)
  /\ rtCh' = addr_drop(rtCh)
  /\ UNCHANGED <<chanVars, uid, extAddrs, handed, kills, eSendRes, lastRecv,
                 recvd, exitLog, dirVars, subVars>>

\* Mutant of SysRecv: the queue is also served between two directory entries.
SysRecvDuringTraversal ==
  /\ pc \in {"traversing", "running"}
  /\ recv_ready(eCh)
  /\ eCh' = recv(eCh)
  /\ lastRecv' = recv_res(eCh)
  /\ recvd' = TRUE
  /\ pc' = "terminating"
  /\ UNCHANGED <<chanVars, uid, extAddrs, handed, kills, eSendRes, rtCh,
                 exitLog, dirVars, subVars>>

\* self.msg_queue.recv() in the main loop of start, from the call to its
\* return; Some(EntityMsg::Kill) and None take the same arm.
SysRecv ==
  /\ pc = "running"
  /\ recv_ready(eCh)
  /\ eCh' = recv(eCh)
  /\ lastRecv' = recv_res(eCh)
  /\ recvd' = TRUE
  /\ pc' = "terminating"
  /\ UNCHANGED <<chanVars, uid, extAddrs, handed, kills, eSendRes, rtCh,
                 exitLog, dirVars, subVars>>

\* self.runtime_addr.send_msg(RuntimeMsg::SystemExit(self.uid)).unwrap();
\* break; and start returns or unwinds, dropping the system.
SysNotify ==
  /\ pc = "terminating"
  /\ pc' = notify_outcome(send_msg_res(rtCh))
  /\ rtCh' = addr_drop(send_msg(rtCh, exit_msg(uid)))
  /\ exitLog' = IF send_msg_res(rtCh) = "Ok"
                  THEN Append(exitLog, exit_msg(uid)) ELSE exitLog
  /\ eCh' = system_dropped(eCh)
  /\ UNCHANGED <<chanVars, uid, extAddrs, handed, kills, eSendRes, lastRecv,
                 recvd, dirVars, subVars>>

\* The steps of the system's own thread.
Traverse == OpenRoot \/ (\E e \in Entries : TraverseEntry(e)) \/ LeaveDir

\* What the owner of the system and the holders of its Addr clones can do
\* while the owner holds the system: startup(self) moves it away, and with it
\* subscribe, publish, system_addr and send_msg_self.
OwnerNext ==
  \/ SystemAddr
  \/ ExtClone
  \/ ExtDrop
  \/ ExtSend
  \/ SendMsgSelf
  \/ \E sub \in SubIds : Subscribe(sub)
  \/ Publish
  \/ Startup

OwnerSpec == Init /\ [][OwnerNext]_vars

\* The life of the system from new to the end of start.  start neither reads
\* nor writes self.subscribers, which OwnerSpec covers.
Next ==
  \/ SystemAddr
  \/ ExtClone
  \/ ExtDrop
  \/ ExtSend
  \/ SendMsgSelf
  \/ Startup
  \/ RuntimeDrop
  \/ Traverse
  \/ TraversePanic
  \/ SysRecv
  \/ SysNotify

Spec == Init /\ [][Next]_vars

\* The operating system schedules the system's thread: a step it can take is
\* eventually taken.
FairSpec ==
  Spec /\ WF_vars(Traverse) /\ WF_vars(SysRecv) /\ WF_vars(SysNotify)

\* ============================================================== the claims
\* ------------------------------------------------------------------ C1
OnlySender(a) == \A i \in 1..Len(sendLog) : sendLog[i][1] = a

\* C1: n sequential send_msg calls from one Addr clone, all made before the
\* first recv, followed by n recv calls on the MsgQueue, yield exactly the n
\* messages in the order they were sent.
C1_SendsThenRecvsInOrder ==
  \A a \in 1..MaxAddrs :
    (/\ Len(sendLog) >= 1
     /\ OnlySender(a)
     /\ recvStart = Len(sendLog)
     /\ Len(received) = Len(sendLog))
    => /\ received = sendLog
       /\ received = [i \in 1..Len(sendLog) |-> <<a, i>>]

\* Three messages sent by Addr 1, then three recv calls.
C1_Witness ==
  /\ OnlySender(1)
  /\ recvStart = 3
  /\ Len(received) = 3

\* ------------------------------------------------------------------ C3
Closed == chan.rx /\ live = {} /\ chan.queue = <<>>

\* C3: once every Addr clone is dropped and the MsgQueue has drained what was
\* sent, recv does not block and returns None; everything sent before the last
\* Addr was dropped is returned before that None.
C3_ClosedRecvReturnsNone ==
  /\ [](Closed => ENABLED Recv)
  /\ [][Closed /\ Recv => recvRes' = "None" /\ received' = received]_vars
  /\ [][chan.rx /\ live = {} /\ chan.queue # <<>> /\ Recv
          => recvRes' = "Some" /\ Len(received') = Len(received) + 1]_vars
  /\ [](recvRes = "None" => received = sendLog)

\* recv returned None after two messages sent before the close were returned.
C3_Witness ==
  /\ recvRes = "None"
  /\ live = {}
  /\ Len(received) = 2
  /\ recvAtClose = 0

\* ------------------------------------------------------------------ C4
\* C4: send_msg returns CannotSend, and changes nothing, when the MsgQueue no
\* longer exists; it returns Ok and puts the message at the back of the queue
\* when the MsgQueue exists; there is no other outcome.
C4_SendOkOrCannotSend ==
  [][\A a \in 1..MaxAddrs :
       SendMsg(a) =>
         IF chan.rx
           THEN /\ sendRes' = "Ok"
                /\ chan'.queue = Append(chan.queue, NextMsg(a))
                /\ sendLog' = Append(sendLog, NextMsg(a))
           ELSE /\ sendRes' = "CannotSend"
                /\ chan' = chan
                /\ sendLog' = sendLog]_vars

\* A send failed on a channel that had carried messages before its MsgQueue
\* was dropped.
C4_Witness ==
  /\ sendRes = "CannotSend"
  /\ ~chan.rx
  /\ Len(sendLog) >= 1

\* ------------------------------------------------------------------ C8
IsPrefix(s, t) == Len(s) <= Len(t) /\ \A i \in 1..Len(s) : s[i] = t[i]

\* C8: with several Addr clones sending in any interleaving, the MsgQueue
\* returns each sender's messages in the order that sender sent them.
C8_PerSenderFifo ==
  \A a \in 1..MaxAddrs :
    /\ IsPrefix(SentBy(received, a), SentBy(sendLog, a))
    /\ \A i \in 1..Len(SentBy(received, a)) : SentBy(received, a)[i] = <<a, i>>
    /\ chan.rx => SentBy(received \o chan.queue, a) = SentBy(sendLog, a)

\* Two senders interleaved: Addr 2's message arrived between two of Addr 1's.
C8_Witness == received = << <<1, 1>>, <<2, 1>>, <<1, 2>> >>

\* ------------------------------------------------------------------ C9
\* C9: recv returns None only when every Addr clone is dropped and nothing is
\* buffered; while a clone is alive recv returns a pending message or stays
\* blocked, also after some (not all) clones were dropped.
C9_NoneOnlyWhenClosed ==
  /\ [][Recv /\ recvRes' = "None" => live = {} /\ chan.queue = <<>>]_vars
  /\ [][Recv /\ live # {}
          => recvRes' = "Some" /\ received' = Append(received, Head(chan.queue))]_vars
  /\ [](chan.rx /\ live # {} /\ chan.queue = <<>> => ~ENABLED Recv)

\* One of two clones was dropped, the queue is drained, and recv is blocked.
C9_Witness ==
  /\ chan.rx
  /\ made = 2
  /\ Cardinality(live) = 1
  /\ chan.queue = <<>>
  /\ recvRes = "Some"

\* ------------------------------------------------------------------ C2
Ended == pc \in {"stopped", "panicked"}

\* C2 as claimed: a system that dequeued Kill always ends Stopped, having
\* delivered exactly one SystemExit with its uid to the runtime.
C2_KillAlwaysStopsNotified ==
  (recvd /\ lastRecv = <<"Kill">> /\ Ended)
    => (pc = "stopped" /\ exitLog = <<SystemExit(uid)>>)

\* C2, amended: a Kill pending at a running system is eventually dequeued and
\* the system ends; it ends Stopped with exactly one SystemExit carrying its
\* uid delivered if the runtime's MsgQueue exists when it notifies, and it
\* panics with none delivered only if that MsgQueue is gone; once ended it
\* takes no further message, however many Kill messages were sent.
C2_KillStopsOrPanics ==
  /\ (pc = "running" /\ eCh.queue # <<>>) ~> Ended
  /\ [](pc = "stopped" => exitLog = <<SystemExit(uid)>>)
  /\ [](pc = "panicked" /\ recvd => exitLog = <<>> /\ ~rtCh.rx)
  /\ [][pc = "terminating" /\ rtCh.rx /\ pc' # pc => pc' = "stopped"]_vars
  /\ [](Len(exitLog) <= 1)
  /\ [][Ended => /\ pc' = pc
                 /\ lastRecv' = lastRecv
                 /\ exitLog' = exitLog
                 /\ eCh'.queue = <<>>]_vars

\* Two Kill messages were sent and the system stopped with one notification.
C2_Witness ==
  /\ pc = "stopped"
  /\ kills = 2
  /\ lastRecv = <<"Kill">>
  /\ uid = U16Max
  /\ exitLog = <<SystemExit(U16Max)>>

\* ------------------------------------------------------------------ C5
\* C5 as claimed: once every Addr clone handed out for a running system has
\* been dropped (and nothing is pending), the recv of the run loop returns.
C5_DropAllAddrsUnblocksRecv ==
  (pc = "running" /\ handed > 0 /\ extAddrs = 0 /\ eCh.queue = <<>>)
    => ENABLED SysRecv

\* ------------------------------------------------------------------ C6
RECURSIVE Deliveries(_)
\* What the publish calls recorded in pubs owe: each call's event once to
\* each subscriber registered at the call, in registration order.
Deliveries(pubs) ==
  IF pubs = <<>> THEN <<>>
  ELSE Deliveries(SubSeq(pubs, 1, Len(pubs) - 1))
         \o [i \in 1..Len(pubs[Len(pubs)]) |->
               <<pubs[Len(pubs)][i], "HelloWorld">>]

Count(log, sub) == Cardinality({k \in 1..Len(log) : log[k][1] = sub})

\* C6: publish delivers the event exactly once to every subscriber registered
\* at the call, in the order they subscribed, all before it returns; a
\* subscriber registered after a publish returned does not get its event.
C6_PublishInOrderOnce ==
  /\ delivered = Deliveries(published)
  /\ \A sub \in SubIds :
       Count(delivered, sub) =
         Cardinality({j \in 1..Len(published) :
                        \E i \in 1..Len(published[j]) : published[j][i] = sub})

\* Subscriber 2, then a publish, then subscriber 1, then a second publish.
C6_Witness ==
  /\ published = << <<2>>, <<2, 1>> >>
  /\ delivered =
       << <<2, "HelloWorld">>, <<2, "HelloWorld">>, <<1, "HelloWorld">> >>

\* ------------------------------------------------------------------ C7
\* C7: when the runtime's MsgQueue is gone as the terminating system sends its
\* exit notification, the system panics: nothing is delivered, and from then
\* on it neither retries nor returns to its run loop nor becomes Stopped.
C7_NotifyFailurePanics ==
  /\ [][SysNotify /\ ~rtCh.rx
          => pc' = "panicked" /\ exitLog' = exitLog /\ rtCh'.queue = <<>>]_vars
  /\ [][pc = "panicked" => pc' = "panicked" /\ exitLog' = exitLog]_vars

\* The system panicked on its notification after dequeuing a Kill.
C7_Witness ==
  /\ pc = "panicked"
  /\ recvd
  /\ lastRecv = <<"Kill">>
  /\ ~rtCh.rx

\* ------------------------------------------------------------------ C10
Wrappable(e) == e.kind = "file" /\ e.ext = "obj" /\ e.loads

\* The positions of the entries that are obj files which load.
GoodObjs(es) ==
  SelectSeq([i \in 1..Len(es) |-> i], LAMBDA i : Wrappable(es[i]))

\* C10: in the startup traversal wrap is called exactly once for each file met
\* whose extension is obj and whose load succeeds, and for no other file; a
\* skipped file leaves the traversal going; and the traversal ends with the
\* system in its run loop.
C10_WrapExactlyGoodObjs ==
  /\ [](resources = GoodObjs(entries))
  /\ [][\A e \in FileEntries :
          TraverseEntry(e) /\ ~Wrappable(e)
            => pc' = "traversing" /\ depth' = depth /\ resources' = resources]_vars
  /\ [][pc = "traversing" /\ pc' \notin {"traversing", "panicked"}
          => pc' = "running" /\ resources' = GoodObjs(entries)]_vars

\* The traversal met an obj file that does not load, then one that does, and
\* the system is in its run loop.
C10_Witness ==
  /\ pc = "running"
  /\ Len(entries) = 2
  /\ entries[1] = [kind |-> "file", ext |-> "obj", loads |-> FALSE]
  /\ entries[2] = [kind |-> "file", ext |-> "obj", loads |-> TRUE]
  /\ resources = <<2>>

\* ------------------------------------------------------------------ C11
\* C11: every handle wrap returns is distinct from every handle the same
\* manager returned before, removals included, and wrap never fails: it can
\* always be called and stores the value under the handle it returns.
C11_HandlesDistinct ==
  /\ \A i, j \in 1..Len(handles) : i # j => handles[i] # handles[j]
  /\ DOMAIN manager.store \subseteq {handles[i] : i \in 1..Len(handles)}
  /\ Len(handles) < MaxWraps
       => \A value \in ResValues, name \in ResNames :
            /\ ENABLED Wrap(value, name)
            /\ wrap(manager, value, name).store[wrap_handle(manager)]
                 = [value |-> value, name |-> name]

\* Three wrap calls of the same value and name, the first two handles removed
\* before the third call.
C11_Witness ==
  /\ Len(handles) = 3
  /\ Cardinality(DOMAIN manager.store) = 1
  /\ \A h \in DOMAIN manager.store :
       /\ h = handles[3]
       /\ manager.store[h] = [value |-> "m1", name |-> "a.obj"]

\* ------------------------------------------------------------------ C12
\* C12: start ends the whole directory traversal, every wrap call included,
\* before its first recv: while the traversal is in progress no message is
\* dequeued or acted upon and no exit notification is sent, and nothing is
\* traversed or wrapped once recv has returned.
C12_TraversalBeforeRecv ==
  /\ [](pc \in {"created", "traversing"}
          => /\ ~recvd
             /\ lastRecv = <<>>
             /\ exitLog = <<>>
             /\ Len(eCh.queue) = kills)
  /\ [](recvd => depth = 0)
  /\ [][recvd' => /\ entries' = entries
                  /\ resources' = resources
                  /\ handles' = handles]_vars

\* Two Kill messages wait in the queue while the traversal, one file wrapped,
\* is still in the root directory.
C12_Witness ==
  /\ pc = "traversing"
  /\ depth = 1
  /\ Len(eCh.queue) = 2
  /\ resources = <<1>>

\* ------------------------------------------------------------------ C13
\* C13: a message is moved to the receiver, never copied or lost: what recv
\* returned is, in arrival order, a prefix of what send_msg accepted, each
\* message at most once and none that was not sent; while the MsgQueue exists
\* the rest is still buffered, in order.
C13_MovedNotCopied ==
  /\ IsPrefix(received, sendLog)
  /\ \A i, j \in 1..Len(received) : i # j => received[i] # received[j]
  /\ \A i \in 1..Len(received) : \E j \in 1..Len(sendLog) : received[i] = sendLog[j]
  /\ chan.rx => received \o chan.queue = sendLog

\* Of three messages from two senders, two were received and one is buffered.
C13_Witness ==
  /\ chan.rx
  /\ Len(received) = 2
  /\ Len(chan.queue) = 1
  /\ Len(SentBy(sendLog, 2)) >= 1
  /\ Len(SentBy(sendLog, 1)) >= 1

\* ------------------------------------------------------------------ C14
\* C14: subscribe only appends: the subscriber list is always the subscribers
\* in the order they were registered, no step removes or reorders one, and
\* publish leaves the subscriber list and the system's inbox unchanged.
C14_SubscribeOnlyAppends ==
  /\ [](subscribers = registered)
  /\ [][IsPrefix(subscribers, subscribers')]_vars
  /\ [][\A sub \in SubIds :
          Subscribe(sub) => subscribers' = Append(subscribers, sub)]_vars
  /\ [][Publish => subscribers' = subscribers /\ eCh' = eCh]_vars

\* Subscriber 2, then subscriber 1, two publish calls, and a Kill in the inbox.
C14_Witness ==
  /\ subscribers = <<2, 1>>
  /\ Len(published) = 2
  /\ published[2] = <<2, 1>>
  /\ Len(eCh.queue) = 1

\* ------------------------------------------------------------------ C15
\* C15: send_msg never blocks and meets no backpressure: while the MsgQueue
\* exists a send from any live Addr clone can be taken, whatever is pending,
\* and it succeeds and lengthens the queue by one.
C15_SendNeverBlocks ==
  /\ [](\A a \in live :
          (chan.rx /\ Len(sendLog) < MaxMsgs) => ENABLED SendMsg(a))
  /\ [][\A a \in 1..MaxAddrs :
          SendMsg(a) /\ chan.rx
            => sendRes' = "Ok" /\ Len(chan'.queue) = Len(chan.queue) + 1]_vars

\* Three sends succeeded with nothing received: three messages are pending.
C15_Witness ==
  /\ chan.rx
  /\ sendRes = "Ok"
  /\ Len(chan.queue) = 3
  /\ received = <<>>

\* ------------------------------------------------------------------ C16
\* C16 as claimed: a Kill pending while the system traverses its directory
\* (sent then, or while it was still Created) leads, unless the traversal
\* itself panics before the run loop starts, to the system Stopped with its
\* exit notification sent.
C16_EarlyKillAlwaysStops ==
  (pc = "traversing" /\ eCh.queue # <<>>)
    ~> \/ pc = "stopped" /\ exitLog = <<SystemExit(uid)>>
       \/ pc = "panicked" /\ ~recvd

\* C16, amended: a Kill sent while the system is Created or traversing
\* succeeds and stays queued until the run loop starts; the run loop then
\* dequeues it and the system ends: Stopped with its exit notification sent if
\* the runtime's MsgQueue exists when it notifies, panicked with none sent
\* only if that MsgQueue is gone.
C16_EarlyKillKept ==
  /\ [][(ExtSend \/ SendMsgSelf) /\ pc \in {"created", "traversing"}
          => /\ eSendRes' = "Ok"
             /\ eCh'.queue = Append(eCh.queue, "Kill")]_vars
  /\ [][(pc \in {"created", "traversing"}
           /\ pc' \in {"created", "traversing", "running"})
          => IsPrefix(eCh.queue, eCh'.queue)]_vars
  /\ [][pc = "running" /\ eCh.queue # <<>> /\ pc' # pc
          => pc' = "terminating" /\ lastRecv' = <<"Kill">>]_vars
  /\ (pc = "traversing" /\ eCh.queue # <<>>) ~> Ended
  /\ [](Ended /\ recvd
          => /\ lastRecv = <<"Kill">>
             /\ \/ pc = "stopped" /\ exitLog = <<SystemExit(uid)>>
                \/ pc = "panicked" /\ ~rtCh.rx /\ exitLog = <<>>)

\* A Kill sent by send_msg_self before startup (no Addr was ever handed out),
\* a traversal of two entries, and the system stopped on that Kill.
C16_Witness ==
  /\ pc = "stopped"
  /\ handed = 0
  /\ kills = 1
  /\ Len(entries) = 2
  /\ lastRecv = <<"Kill">>
  /\ Len(exitLog) = 1

C18_StoppedSystemRefusesSends ==
  /\ [](pc = "stopped" => ~eCh.rx /\ eCh.queue = <<>>)
  /\ [][pc = "stopped" /\ ExtSend
          => eSendRes' = "CannotSend" /\ eCh' = eCh /\ kills' = kills]_vars
  /\ [][SysNotify => eCh'.queue = <<>> /\ lastRecv' = lastRecv]_vars
  /\ [][pc = "stopped"
          => pc' = "stopped" /\ lastRecv' = lastRecv /\ recvd' = recvd]_vars

\* Two Kills were queued and one received; the system stopped and a holder of
\* an Addr then sent again.
C18_Witness ==
  /\ pc = "stopped"
  /\ kills = 2
  /\ lastRecv = <<"Kill">>
  /\ extAddrs > 0
  /\ eSendRes = "CannotSend"

====
